---------------------------- MODULE Spec2Model ----------------------------
(***************************************************************************)
(* A model of the retrieval pipeline of stage-4-agentic-rag:               *)
(*   - embedding-service/server.py: the POST /api/embeddings handler       *)
(*     generate_embedding (JSON parsing, base64 / UTF-8 decoding, the call *)
(*     of model.encode, the status of the response);                       *)
(*   - python/grimm_fairy_tales_rag_demo.py: last_token_pool, chunk_text,  *)
(*     generate_all_embeddings, search_chunks and the flow of main.        *)
(*                                                                         *)
(* Each component has its own specification (SpecServer, SpecPool,         *)
(* SpecChunk, SpecBatch, SpecSearch, SpecMain); the variables of the other *)
(* components stay at their idle value under it.                           *)
(*                                                                         *)
(* Python sequences are 0-based; TLA+ sequences are 1-based.  The model    *)
(* keeps Python's indices in what it stores (ids, top_indices, sequence    *)
(* lengths) and adds 1 where it reads a TLA+ sequence.                     *)
(***************************************************************************)
EXTENDS Integers, Sequences, FiniteSets, TLC

VARIABLES
    request,          \* server: the body of the request being handled
    response,         \* server: the response of generate_embedding
    encoded,          \* server: the arguments model.encode was called with
    attention_mask,   \* pooling: batch x sequence matrix of 0/1
    pooled,           \* pooling: the value last_token_pool returned
    text,             \* chunker: the document handed to chunk_text
    chunked,          \* chunker: the list chunk_text returned
    batch_in,         \* batch embedder: the chunks handed to generate_all_embeddings
    batch_size,       \* batch embedder: the configured BATCH_SIZE
    batch_out,        \* batch embedder: the value generate_all_embeddings returned
    chunk_embeddings, \* search: the chunk matrix
    query_embedding,  \* search: the embedding of the query
    top_k,            \* search: the configured TOP_K
    found,            \* search: the value search_chunks returned
    encoder,          \* the loaded embedding model: text -> embedding
    pc,               \* main: the position of main
    session           \* main: the locals of main

serverVars == <<request, response, encoded>>
poolVars   == <<attention_mask, pooled>>
chunkVars  == <<text, chunked>>
batchVars  == <<batch_in, batch_size, batch_out, encoder>>
searchVars == <<chunk_embeddings, query_embedding, top_k, found>>
mainVars   == <<pc, session>>
vars == <<request, response, encoded, attention_mask, pooled, text, chunked,
          batch_in, batch_size, batch_out, chunk_embeddings, query_embedding,
          top_k, found, encoder, pc, session>>

\* The value of a variable that holds nothing (Python's None / not yet set).
None == [t |-> "none"]

ServerIdle == request = None /\ response = None /\ encoded = <<>>
PoolIdle   == attention_mask = <<>> /\ pooled = None
ChunkIdle  == text = <<>> /\ chunked = None
BatchIdle  == batch_in = <<>> /\ batch_size = 0 /\ batch_out = None
              /\ encoder = <<>>
SearchIdle == chunk_embeddings = <<>> /\ query_embedding = <<>> /\ top_k = 0
              /\ found = None
MainIdle   == pc = "idle" /\ session = None

\* ------------------------------------------------------------------------
\* Helpers on sequences

Range(s) == {s[i] : i \in 1..Len(s)}

Min(a, b) == IF a <= b THEN a ELSE b

RECURSIVE SumSeq(_)
SumSeq(s) == IF s = <<>> THEN 0 ELSE Head(s) + SumSeq(Tail(s))

\* All sequences over S of length 0..n.
RECURSIVE SeqsUpTo(_, _)
SeqsUpTo(S, n) ==
    IF n = 0 THEN {<<>>}
    ELSE LET shorter == SeqsUpTo(S, n - 1)
         IN  shorter \cup {Append(s, x) : s \in {t \in shorter : Len(t) = n - 1}, x \in S}

\* ========================================================================
\* embedding-service/server.py
\* ========================================================================

\* Characters are numbers: 0..63 is a character of the base64 alphabet, by
\* its 6-bit value; PadChar is '='; BangChar is an ASCII character outside
\* the alphabet ('!'); NonAsciiChar is a character above U+007F.
PadChar == 64
BangChar == 65
NonAsciiChar == 66

\* The characters prompts are drawn from: 'Q' (16), 'k' (36), 'w' (48),
\* '6' (58), '/' (63), '=', '!' and a non-ASCII character.  "QQ==" is the
\* base64 of "A", "w6k=" of the two-byte UTF-8 character U+00E9, "/w==" of
\* the byte 0xFF, which is not UTF-8.
PromptChars == {16, 36, 48, 58, 63, PadChar, BangChar, NonAsciiChar}

MaxPromptLen == 4

\* --- JSON values, all of one shape: t the type, n the number (a bool's
\* truth value, a number's value, a list's or dict's length), s the string.
JNull     == [t |-> "null", n |-> 0, s |-> <<>>]
JBool(b)  == [t |-> "bool", n |-> IF b THEN 1 ELSE 0, s |-> <<>>]
JNum(n)   == [t |-> "num",  n |-> n, s |-> <<>>]
JStr(s)   == [t |-> "str",  n |-> 0, s |-> s]
JList(n)  == [t |-> "list", n |-> n, s |-> <<>>]
JDict(n)  == [t |-> "dict", n |-> n, s |-> <<>>]
\* A key the object does not hold: dict.get returns its default.
JAbsent   == [t |-> "absent", n |-> 0, s |-> <<>>]

\* The strings "plain" and "base64" and another one, as encoding values.
PlainStr == <<1>>
Base64Str == <<2>>
OtherStr == <<3>>

\* Python's truth value of a JSON value (`if prompt`, `not prompt`); an
\* absent key reads as None.
Truthy(v) ==
    CASE v.t \in {"null", "absent"} -> FALSE
      [] v.t = "bool" -> v.n = 1
      [] v.t = "num"  -> v.n # 0
      [] v.t = "str"  -> v.s # <<>>
      [] OTHER        -> v.n > 0

\* Whether len(v) is defined (otherwise it raises TypeError).
HasLen(v) == v.t \in {"str", "list", "dict"}

\* --- base64.b64decode(prompt), validate=False: binascii.a2b_base64 in its
\* non-strict mode (CPython 3.11).  The state of its loop: quad_pos, pads, leftchar, the
\* bytes written, and whether a completed pad sequence ended the parse.
B64Start == [quad_pos |-> 0, pads |-> 0, leftchar |-> 0, out |-> <<>>, done |-> FALSE]

B64Step(st, ch) ==
    IF st.done THEN st
    ELSE IF ch = PadChar THEN
        IF st.quad_pos >= 2 /\ st.quad_pos + st.pads + 1 >= 4
        THEN [st EXCEPT !.pads = @ + 1, !.done = TRUE]
        ELSE IF st.quad_pos >= 2 THEN [st EXCEPT !.pads = @ + 1] ELSE st
    ELSE IF ch >= 64 THEN st    \* not in the alphabet: skipped
    ELSE CASE st.quad_pos = 0 ->
                [st EXCEPT !.pads = 0, !.quad_pos = 1, !.leftchar = ch]
           [] st.quad_pos = 1 ->
                [st EXCEPT !.pads = 0, !.quad_pos = 2,
                           !.out = Append(@, ((st.leftchar * 4) + (ch \div 16)) % 256),
                           !.leftchar = ch % 16]
           [] st.quad_pos = 2 ->
                [st EXCEPT !.pads = 0, !.quad_pos = 3,
                           !.out = Append(@, ((st.leftchar * 16) + (ch \div 4)) % 256),
                           !.leftchar = ch % 4]
           [] OTHER ->
                [st EXCEPT !.pads = 0, !.quad_pos = 0,
                           !.out = Append(@, ((st.leftchar * 64) + ch) % 256),
                           !.leftchar = 0]

RECURSIVE B64Loop(_, _)
B64Loop(st, s) == IF s = <<>> THEN st ELSE B64Loop(B64Step(st, Head(s)), Tail(s))

\* The result of base64.b64decode on a str: err is "ValueError" (a
\* non-ASCII character: the str cannot be encoded as ASCII), "binascii"
\* (binascii.Error: a quad left open) or "none", with the bytes.
b64decode(s) ==
    IF NonAsciiChar \in Range(s) THEN [err |-> "ValueError", bytes |-> <<>>]
    ELSE LET st == B64Loop(B64Start, s)
         IN  IF ~st.done /\ st.quad_pos # 0
             THEN [err |-> "binascii", bytes |-> <<>>]
             ELSE [err |-> "none", bytes |-> st.out]

\* --- bytes.decode('utf-8'): whether the bytes are well-formed UTF-8.
IsCont(b) == b >= 128 /\ b <= 191

RECURSIVE ValidUtf8(_)
ValidUtf8(bs) ==
    IF bs = <<>> THEN TRUE
    ELSE LET b == bs[1]
             n == Len(bs)
         IN  CASE b < 128 -> ValidUtf8(Tail(bs))
               [] b >= 194 /\ b <= 223 ->
                    n >= 2 /\ IsCont(bs[2]) /\ ValidUtf8(SubSeq(bs, 3, n))
               [] b >= 224 /\ b <= 239 ->
                    /\ n >= 3
                    /\ IsCont(bs[2]) /\ IsCont(bs[3])
                    /\ (b = 224 => bs[2] >= 160)
                    /\ (b = 237 => bs[2] <= 159)
                    /\ ValidUtf8(SubSeq(bs, 4, n))
               [] b >= 240 /\ b <= 244 ->
                    /\ n >= 4
                    /\ IsCont(bs[2]) /\ IsCont(bs[3]) /\ IsCont(bs[4])
                    /\ (b = 240 => bs[2] >= 144)
                    /\ (b = 244 => bs[2] <= 143)
                    /\ ValidUtf8(SubSeq(bs, 5, n))
               [] OTHER -> FALSE

\* --- the responses
Http(status) == [t |-> "http", status |-> status, text |-> None]
\* 200 with the embedding model.encode returned for `txt`.
Ok(txt) == [t |-> "http", status |-> 200, text |-> txt]

\* A text handed to model.encode: a str (its characters or bytes), or a list.
StrText(s) == [t |-> "str", s |-> s]
ListText(n) == [t |-> "list", s |-> <<n>>]

\* The outcome of handling one request: the response and the arguments of
\* the calls of model.encode.
Outcome(resp, calls) == [response |-> resp, encoded |-> calls]

\* Lines 91-133: the second try block, entered with a truthy prompt.
\* encode_ok: whether model.encode returns (it raises otherwise).
EmbedPart(prompt, encoding, encode_ok) ==
    LET isB64 == encoding.t = "str" /\ encoding.s = Base64Str
        dec   == b64decode(prompt.s)
        \* after the call of model.encode on txt
        Encode(txt) ==
            IF ~encode_ok THEN Outcome(Http(500), <<txt>>)
            \* a list gives a 2-D array: EmbeddingResponse(embedding=...) fails
            ELSE IF txt.t = "list" THEN Outcome(Http(500), <<txt>>)
            ELSE Outcome(Ok(txt), <<txt>>)
    IN  IF isB64 THEN
            \* b64decode of a list or dict raises TypeError: the outer except
            IF prompt.t # "str" THEN Outcome(Http(500), <<>>)
            ELSE IF dec.err = "ValueError" THEN Outcome(Http(500), <<>>)
            ELSE IF dec.err = "binascii" THEN Outcome(Http(422), <<>>)
            ELSE IF ~ValidUtf8(dec.bytes) THEN Outcome(Http(422), <<>>)
            ELSE Encode(StrText(dec.bytes))
        ELSE
            \* text = prompt; text[:50] raises on a dict
            IF prompt.t = "dict" THEN Outcome(Http(500), <<>>)
            ELSE IF prompt.t = "list" THEN Encode(ListText(prompt.n))
            ELSE Encode(StrText(prompt.s))

\* Lines 59-89: the first try block, then the second.
Handle(body, encode_ok) ==
    IF body.kind = "bad_utf8" THEN Outcome(Http(422), <<>>)       \* line 69 raises
    ELSE IF body.kind = "bad_json" THEN Outcome(Http(422), <<>>)  \* line 70 raises
    ELSE IF body.kind # "object" THEN Outcome(Http(422), <<>>)    \* .get: AttributeError
    ELSE LET prompt   == body.prompt
             encoding == IF body.encoding.t = "absent" THEN JStr(PlainStr)
                         ELSE body.encoding
         IN  \* line 78: len(prompt) if prompt else 0
             IF Truthy(prompt) /\ ~HasLen(prompt) THEN Outcome(Http(422), <<>>)
             ELSE IF ~Truthy(prompt) THEN Outcome(Http(422), <<>>)  \* line 80
             ELSE EmbedPart(prompt, encoding, encode_ok)

\* --- the request bodies
PromptStrings == SeqsUpTo(PromptChars, MaxPromptLen)

PromptValues ==
    {JAbsent, JNull, JBool(TRUE), JBool(FALSE), JNum(0), JNum(5),
     JList(0), JList(1), JDict(0), JDict(1)}
    \cup {JStr(s) : s \in PromptStrings}

EncodingValues == {JAbsent, JNull, JStr(PlainStr), JStr(Base64Str), JStr(OtherStr)}

ObjectBody(p, e) == [kind |-> "object", prompt |-> p, encoding |-> e]
OtherBody(k) == [kind |-> k, prompt |-> JAbsent, encoding |-> JAbsent]

Bodies ==
    {ObjectBody(p, e) : p \in PromptValues, e \in EncodingValues}
    \cup {OtherBody(k) : k \in {"bad_utf8", "bad_json", "json_list", "json_str",
                                "json_num", "json_null"}}

InitServer ==
    /\ ServerIdle
    /\ PoolIdle /\ ChunkIdle /\ BatchIdle /\ SearchIdle /\ MainIdle

\* POST /api/embeddings: the whole handler on one request.  The handler
\* keeps no state between requests; the variables hold the request being
\* answered until its response is sent.
generate_embedding ==
    /\ request = None
    /\ \E body \in Bodies, encode_ok \in BOOLEAN :
        LET o == Handle(body, encode_ok)
        IN  /\ request' = body
            /\ response' = o.response
            /\ encoded' = o.encoded
    /\ UNCHANGED <<poolVars, chunkVars, batchVars, searchVars, mainVars>>

\* The framework sends the response (or the HTTPException's status).
send_response ==
    /\ request # None
    /\ request' = None /\ response' = None /\ encoded' = <<>>
    /\ UNCHANGED <<poolVars, chunkVars, batchVars, searchVars, mainVars>>

NextServer == generate_embedding \/ send_response

SpecServer == InitServer /\ [][NextServer]_vars

\* ------------------------------------------------------------------------
\* What the interface calls a well-formed request (RFC 4648 base64: only
\* alphabet characters, whole quads, at most two '=' and only at the end).
IsAlphabetChar(c) == c >= 0 /\ c <= 63

StrictBase64(s) ==
    /\ Len(s) % 4 = 0
    /\ \A i \in 1..Len(s) :
        \/ IsAlphabetChar(s[i])
        \/ /\ s[i] = PadChar
           /\ i > Len(s) - 2
           /\ i > 2
           /\ \A j \in i..Len(s) : s[j] = PadChar

\* A request that asks for base64 decoding of a (non-empty) string prompt.
IsBase64Request(body) ==
    /\ body.kind = "object"
    /\ body.prompt.t = "str" /\ body.prompt.s # <<>>
    /\ body.encoding.t = "str" /\ body.encoding.s = Base64Str

UndecodablePrompt(s) ==
    \/ ~StrictBase64(s)
    \/ b64decode(s).err # "none"
    \/ ~ValidUtf8(b64decode(s).bytes)

MalformedBody(body) ==
    \/ body.kind # "object"
    \/ body.prompt.t # "str"
    \/ body.prompt.s = <<>>

\* C1: a base64 request whose prompt is not valid base64, or whose decoded
\* bytes are not valid UTF-8, is answered 422 and model.encode is not called.
C1_UndecodablePromptIs422 ==
    (request # None /\ IsBase64Request(request) /\ UndecodablePrompt(request.prompt.s))
        => (response.status = 422 /\ encoded = <<>>)

\* C2: a malformed body (not JSON, not a JSON object, prompt absent, empty
\* or not a string) is answered 422 and model.encode is not called.
C2_MalformedBodyIs422 ==
    (request # None /\ MalformedBody(request))
        => (response.status = 422 /\ encoded = <<>>)

\* ========================================================================
\* grimm_fairy_tales_rag_demo.py: last_token_pool
\* ========================================================================

MaxBatch == 2
MaxSeqLen == 3

\* Python's s[i] for a 0-based index i, negative indices counting from the end.
PyIndex(s, i) == IF i < 0 THEN s[Len(s) + i + 1] ELSE s[i + 1]

\* The hidden states of a batch x seq input: row r, position p (0-based)
\* holds the value <<r, p>>, so that the selected position shows in the result.
HiddenStates(b, n) == [r \in 1..b |-> [p \in 1..n |-> <<r - 1, p - 1>>]]

Tensor(rows) == [t |-> "tensor", rows |-> rows]

\* attention_mask.sum(dim=1) - 1, as used by the right-padding branch.
LastTokenPoolBySum(last_hidden_states, mask) ==
    Tensor([r \in 1..Len(mask) |->
        PyIndex(last_hidden_states[r], SumSeq(mask[r]) - 1)])

\* last_token_pool(last_hidden_states, attention_mask)
last_token_pool(last_hidden_states, mask) ==
    LET batch == Len(mask)
        left_padding ==
            SumSeq([r \in 1..batch |-> PyIndex(mask[r], -1)]) = batch
    IN  IF left_padding
        THEN Tensor([r \in 1..batch |-> PyIndex(last_hidden_states[r], -1)])
        ELSE LET sequence_lengths == [r \in 1..batch |-> SumSeq(mask[r]) - 1]
             IN  Tensor([r \in 1..batch |->
                     PyIndex(last_hidden_states[r], sequence_lengths[r])])

Masks ==
    UNION {[1..b -> [1..n -> {0, 1}]] : b \in 1..MaxBatch, n \in 1..MaxSeqLen}

InitPool ==
    /\ attention_mask \in Masks /\ pooled = None
    /\ ServerIdle /\ ChunkIdle /\ BatchIdle /\ SearchIdle /\ MainIdle

pool_batch ==
    /\ attention_mask # <<>>
    /\ pooled = None
    /\ pooled' = last_token_pool(
                    HiddenStates(Len(attention_mask), Len(attention_mask[1])),
                    attention_mask)
    /\ UNCHANGED <<attention_mask, serverVars, chunkVars, batchVars, searchVars,
                   mainVars>>

NextPool == pool_batch

SpecPool == InitPool /\ [][NextPool]_vars

\* ------------------------------------------------------------------------
\* 1^a 0^b with a >= 1, and 0^a 1^b with b >= 1.
RightPadded(row) ==
    /\ row[1] = 1
    /\ \A i \in 1..(Len(row) - 1) : row[i] = 0 => row[i + 1] = 0
LeftPadded(row) ==
    /\ row[Len(row)] = 1
    /\ \A i \in 1..(Len(row) - 1) : row[i] = 1 => row[i + 1] = 1

AllZero(row) == \A i \in 1..Len(row) : row[i] = 0

\* The 0-based position of the last non-padding token of a row that has one.
LastValid(row) == (CHOOSE i \in 1..Len(row) :
                      row[i] = 1 /\ \A j \in (i + 1)..Len(row) : row[j] = 0) - 1

PoolsLastValid ==
    \A r \in 1..Len(attention_mask) :
        pooled.rows[r] = <<r - 1, LastValid(attention_mask[r])>>

\* C6 as claimed: whenever each row is left-padded or right-padded (with a 1),
\* every row of the result is the hidden state of that row's last
\* non-padding token.
C6_RowwiseWellFormed ==
    (pooled # None
     /\ \A r \in 1..Len(attention_mask) :
            LeftPadded(attention_mask[r]) \/ RightPadded(attention_mask[r]))
        => PoolsLastValid

\* C6 as amended: whenever all rows are left-padded, or all rows are
\* right-padded (each with a 1), every row of the result is the hidden state
\* of that row's last non-padding token: the final position for the
\* left-padded batch, position sum(mask) - 1 for the right-padded one.
C6_UniformPadding ==
    (pooled # None
     /\ (\/ \A r \in 1..Len(attention_mask) : LeftPadded(attention_mask[r])
         \/ \A r \in 1..Len(attention_mask) : RightPadded(attention_mask[r])))
        => /\ PoolsLastValid
           /\ (\A r \in 1..Len(attention_mask) : LeftPadded(attention_mask[r]))
                => \A r \in 1..Len(attention_mask) :
                      pooled.rows[r] = <<r - 1, Len(attention_mask[r]) - 1>>
           /\ (\A r \in 1..Len(attention_mask) : RightPadded(attention_mask[r]))
                => \A r \in 1..Len(attention_mask) :
                      pooled.rows[r] = <<r - 1, SumSeq(attention_mask[r]) - 1>>

\* A right-padded batch with a padded row next to a full one has been pooled.
C6_Witness ==
    /\ pooled # None
    /\ Len(attention_mask) = 2
    /\ \A r \in 1..2 : RightPadded(attention_mask[r])
    /\ attention_mask[1][Len(attention_mask[1])] = 0
    /\ attention_mask[2][Len(attention_mask[2])] = 1

\* C7: a mask with an all-zero row makes pooling fail with InvalidInputError.
C7_AllZeroRowFails ==
    (pooled # None /\ \E r \in 1..Len(attention_mask) : AllZero(attention_mask[r]))
        => pooled.t = "InvalidInputError"

\* ========================================================================
\* grimm_fairy_tales_rag_demo.py: chunk_text
\* ========================================================================

\* Characters of a document, by their code: newline, space, two letters.
NL == 10
SP == 32
LetterX == 88
LetterY == 89

\* `len(cleaned) > 100`
MinChunkLen == 100

IsSpace(c) == c \in {NL, SP}

SetMin(S) == CHOOSE x \in S : \A y \in S : x <= y

\* re.split(r'\n\n\n\n', text): the pieces between the non-overlapping
\* occurrences of four newlines, found from left to right.  The search for
\* the next occurrence starts at `start`, where the current piece begins.
RECURSIVE SplitFrom(_, _)
SplitFrom(t, start) ==
    LET matches == {i \in start..(Len(t) - 3) : \A j \in i..(i + 3) : t[j] = NL}
    IN  IF matches = {} THEN <<SubSeq(t, start, Len(t))>>
        ELSE LET m == SetMin(matches)
             IN  <<SubSeq(t, start, m - 1)>> \o SplitFrom(t, m + 4)

Split(t) == SplitFrom(t, 1)

\* chapter.strip().split(): the words (maximal runs of non-whitespace) from
\* position i on.
RECURSIVE WordsFrom(_, _)
WordsFrom(ch, i) ==
    LET starts == {j \in i..Len(ch) : ~IsSpace(ch[j])}
    IN  IF starts = {} THEN <<>>
        ELSE LET b == SetMin(starts)
                 e == SetMin({j \in b..Len(ch) : j = Len(ch) \/ IsSpace(ch[j + 1])})
             IN  <<SubSeq(ch, b, e)>> \o WordsFrom(ch, e + 1)

\* ' '.join(words)
RECURSIVE Join(_)
Join(words) ==
    IF words = <<>> THEN <<>>
    ELSE IF Len(words) = 1 THEN words[1]
    ELSE words[1] \o <<SP>> \o Join(Tail(words))

Clean(chapter) == Join(WordsFrom(chapter, 1))

\* len(encoder.encode(cleaned)): tiktoken's cl100k_base is not part of the
\* repository; a fixed function of the text stands for it (a token for every
\* four characters, rounded up).
TokenCount(cleaned) == (Len(cleaned) + 3) \div 4

\* The loop of lines 73-82, from the i-th chapter (0-based) on.
RECURSIVE ChunkLoop(_, _)
ChunkLoop(chapters, i) ==
    IF i >= Len(chapters) THEN <<>>
    ELSE LET cleaned == Clean(chapters[i + 1])
         IN  IF Len(cleaned) > MinChunkLen
             THEN <<[id |-> i, text |-> cleaned, length |-> Len(cleaned),
                     tokens |-> TokenCount(cleaned)]>> \o ChunkLoop(chapters, i + 1)
             ELSE ChunkLoop(chapters, i + 1)

\* chunk_text(text)
chunk_text(t) == ChunkLoop(Split(t), 0)

\* --- documents, written as runs of one character
Run(c, n) == [c |-> c, n |-> n]

RECURSIVE Expand(_)
Expand(runs) ==
    IF runs = <<>> THEN <<>>
    ELSE [i \in 1..Head(runs).n |-> Head(runs).c] \o Expand(Tail(runs))

\* A letter, a word of 50, a word of 101, a space, a newline, four newlines.
RunKinds == {Run(LetterX, 1), Run(LetterX, 50), Run(LetterX, 101),
             Run(SP, 1), Run(NL, 1), Run(NL, 4)}

MaxRuns == 3

Documents == {Expand(r) : r \in SeqsUpTo(RunKinds, MaxRuns)}

InitChunk ==
    /\ text \in Documents /\ chunked = None
    /\ ServerIdle /\ PoolIdle /\ BatchIdle /\ SearchIdle /\ MainIdle

chunk_document ==
    /\ chunked = None
    /\ chunked' = [t |-> "list", items |-> chunk_text(text)]
    /\ UNCHANGED <<text, serverVars, poolVars, batchVars, searchVars, mainVars>>

NextChunk == chunk_document

SpecChunk == InitChunk /\ [][NextChunk]_vars

\* ------------------------------------------------------------------------
\* C5: the j-th chunk returned (counted from 0) has id j.
C5_DenseIds ==
    chunked # None =>
        \A j \in 1..Len(chunked.items) : chunked.items[j].id = j - 1

\* ========================================================================
\* grimm_fairy_tales_rag_demo.py: get_embeddings, generate_all_embeddings
\* ========================================================================

\* Embeddings are L2-normalized (line 61); the unit vectors with integer
\* components stand for them, in two dimensions.
UnitVectors == {<<1, 0>>, <<0, 1>>, <<-1, 0>>, <<0, -1>>}

Dot(u, v) == SumSeq([i \in 1..Len(u) |-> u[i] * v[i]])

\* Surviving chapters: 101 X, or 101 Y.
TextX == Expand(<<Run(LetterX, 101)>>)
TextY == Expand(<<Run(LetterY, 101)>>)
SampleTexts == {TextX, TextY}

\* The pieces documents are made of: the two above, the second with
\* whitespace that chunk_text removes, and one whose 100 cleaned characters
\* are too few to survive.
Pieces == {TextX,
           Expand(<<Run(SP, 1), Run(LetterY, 50), Run(LetterY, 51), Run(NL, 1)>>),
           Expand(<<Run(LetterX, 50), Run(NL, 1), Run(SP, 1), Run(LetterX, 49)>>)}

\* The pieces with four newlines between them.
RECURSIVE JoinPieces(_)
JoinPieces(ps) ==
    IF ps = <<>> THEN <<>>
    ELSE IF Len(ps) = 1 THEN ps[1]
    ELSE ps[1] \o Expand(<<Run(NL, 4)>>) \o JoinPieces(Tail(ps))

MaxPieces == 2

PieceDocuments == {JoinPieces(ps) : ps \in SeqsUpTo(Pieces, MaxPieces)}

Error(kind) == [t |-> kind, rows |-> <<>>]

\* get_embeddings(texts, ...): tokenizer, model, last_token_pool, the slice
\* to EMBEDDING_DIM and F.normalize, as the loaded model `enc` decides: one
\* row per text, in the order of the texts.
get_embeddings(texts, enc) == [i \in 1..Len(texts) |-> enc[texts[i]]]

\* The slice chunks[i : i + B] of a Python list, i 0-based.
Slice(s, i, j) == SubSeq(s, i + 1, Min(j, Len(s)))

\* The loop of lines 124-128 from offset i on: the list all_embeddings.
RECURSIVE BatchLoop(_, _, _, _)
BatchLoop(chunks, i, B, enc) ==
    IF i >= Len(chunks) THEN <<>>
    ELSE LET batch_chunks == Slice(chunks, i, i + B)
             batch_texts == [j \in 1..Len(batch_chunks) |-> batch_chunks[j].text]
         IN  <<get_embeddings(batch_texts, enc)>> \o BatchLoop(chunks, i + B, B, enc)

\* torch.cat(tensors, dim=0) of a non-empty list.
RECURSIVE Cat(_)
Cat(tensors) == IF tensors = <<>> THEN <<>> ELSE Head(tensors) \o Cat(Tail(tensors))

\* The number of calls of get_embeddings the loop makes.
NumBatches(n, B) == (n + B - 1) \div B

\* generate_all_embeddings(chunks, ...) with BATCH_SIZE = B.  `failing` is
\* the call of get_embeddings (0-based) in which the model raises, -1 for none.
generate_all_embeddings(chunks, B, enc, failing) ==
    IF failing >= 0 /\ failing < NumBatches(Len(chunks), B)
    THEN Error("ModelInferenceError")
    ELSE LET all_embeddings == BatchLoop(chunks, 0, B, enc)
         IN  \* torch.cat of an empty list raises RuntimeError
             IF all_embeddings = <<>> THEN Error("RuntimeError")
             ELSE Tensor(Cat(all_embeddings))

MaxBatchSize == 2

\* The source sets BATCH_SIZE = 64 (line 24); batch_size holds the configured
\* value and ranges over 1..MaxBatchSize, so that lists shorter than, equal
\* to and longer than a batch occur.
InitBatch ==
    /\ batch_in \in {chunk_text(d) : d \in PieceDocuments}
    /\ batch_size \in 1..MaxBatchSize
    /\ encoder \in [SampleTexts -> UnitVectors]
    /\ batch_out = None
    /\ ServerIdle /\ PoolIdle /\ ChunkIdle /\ SearchIdle /\ MainIdle

embed_chunks ==
    /\ batch_size > 0
    /\ batch_out = None
    /\ \E failing \in -1..(NumBatches(Len(batch_in), batch_size) - 1) :
        batch_out' = generate_all_embeddings(batch_in, batch_size, encoder, failing)
    /\ UNCHANGED <<batch_in, batch_size, encoder, serverVars, poolVars, chunkVars,
                   searchVars, mainVars>>

NextBatch == embed_chunks

SpecBatch == InitBatch /\ [][NextBatch]_vars

\* ------------------------------------------------------------------------
\* C8: unless the model fails, generate_all_embeddings returns a matrix with
\* one row per input chunk, row i the embedding of chunk i, whatever the
\* batch size.
C8_RowPerChunkInOrder ==
    (batch_out # None /\ batch_out.t # "ModelInferenceError")
        => /\ batch_out.t = "tensor"
           /\ Len(batch_out.rows) = Len(batch_in)
           /\ \A i \in 1..Len(batch_in) :
                batch_out.rows[i] = encoder[batch_in[i].text]

\* ========================================================================
\* grimm_fairy_tales_rag_demo.py: search_chunks
\* ========================================================================

\* similarities = (chunk_embeddings @ query_embedding.T).flatten()
Similarities(matrix, q) == [i \in 1..Len(matrix) |-> Dot(matrix[i], q)]

\* torch.topk(similarities, k, largest=True) returns the k largest values in
\* descending order with their (0-based) indices.  Which of several equal
\* values it returns, and in which order, is not defined by torch and differs
\* between its CPU, CUDA and MPS kernels: every outcome is possible.  The
\* set of the index sequences it may return, grown from `chosen`.
RECURSIVE TopKFrom(_, _, _)
TopKFrom(sims, k, chosen) ==
    IF Len(chosen) = k THEN {chosen}
    ELSE LET rest == (0..(Len(sims) - 1)) \ Range(chosen)
             best == {i \in rest : \A j \in rest : sims[j + 1] <= sims[i + 1]}
         IN  UNION {TopKFrom(sims, k, Append(chosen, i)) : i \in best}

\* torch.topk with largest=False.
TopKSmallest(sims, k) ==
    LET Neg == [i \in 1..Len(sims) |-> 0 - sims[i]]
    IN  TopKFrom(Neg, k, <<>>)

TopK(sims, k) == TopKFrom(sims, k, <<>>)

\* The loop of lines 104-114 with chunks[i] in place of chunks[idx].
BuildResultsByRank(chunks, sims, top_indices) ==
    [i \in 1..Len(top_indices) |->
        [text |-> chunks[i].text,
         similarity |-> sims[top_indices[i] + 1],
         length |-> chunks[i].length,
         tokens |-> chunks[i].tokens]]

\* The loop of lines 104-114: top_values[i] is similarities[top_indices[i]].
BuildResults(chunks, sims, top_indices) ==
    [i \in 1..Len(top_indices) |->
        LET idx == top_indices[i]
            chunk == chunks[idx + 1]
        IN  [text |-> chunk.text,
             similarity |-> sims[idx + 1],
             length |-> chunk.length,
             tokens |-> chunk.tokens]]

\* Lines 95-116 of search_chunks, after the query was embedded as `q`: the
\* set of the values it may return, each with the top_indices it used.
search_chunks(q, chunks, matrix, K) ==
    LET similarities == Similarities(matrix, q)
    IN  {[t |-> "results", top_indices |-> ti,
          results |-> BuildResults(chunks, similarities, ti)] :
            ti \in TopK(similarities, Min(K, Len(similarities)))}

\* A chunk list of n chunks, as chunk_text returns it for n chapters of 101,
\* 102, ... letters.
ChaptersOf(n) == [i \in 1..n |-> Expand(<<Run(LetterX, MinChunkLen + i)>>)]
StubChunks(n) == chunk_text(JoinPieces(ChaptersOf(n)))

MaxChunks == 4
MaxTopK == 2

\* The source sets TOP_K = 6 (line 26); top_k holds the configured value and
\* ranges over 1..MaxTopK, so that k < N, k = N and k > N occur.
InitSearch ==
    /\ chunk_embeddings \in SeqsUpTo(UnitVectors, MaxChunks)
    /\ query_embedding \in UnitVectors
    /\ top_k \in 1..MaxTopK
    /\ found = None
    /\ ServerIdle /\ PoolIdle /\ ChunkIdle /\ BatchIdle /\ MainIdle

search ==
    /\ top_k > 0
    /\ found = None
    /\ \E r \in search_chunks(query_embedding, StubChunks(Len(chunk_embeddings)),
                              chunk_embeddings, top_k) :
        found' = r
    /\ UNCHANGED <<chunk_embeddings, query_embedding, top_k, serverVars, poolVars,
                   chunkVars, batchVars, mainVars>>

NextSearch == search

SpecSearch == InitSearch /\ [][NextSearch]_vars

\* ------------------------------------------------------------------------
Score(i) == Dot(chunk_embeddings[i + 1], query_embedding)

\* C3: of two returned rows with equal scores, the one with the lower row
\* index comes first.
C3_TiesByLowerIndex ==
    found # None =>
        \A a, b \in 1..Len(found.top_indices) :
            (a < b /\ Score(found.top_indices[a]) = Score(found.top_indices[b]))
                => found.top_indices[a] < found.top_indices[b]

\* C4: search_chunks returns min(k, N) results, in non-increasing order of
\* score, for pairwise distinct rows, and no row left out scores strictly
\* higher than a returned one.
C4_TopKSelection ==
    found # None =>
        LET ti == found.top_indices
            N  == Len(chunk_embeddings)
        IN  /\ Len(found.results) = Min(top_k, N)
            /\ Len(ti) = Len(found.results)
            /\ \A a \in 1..Len(ti) :
                /\ ti[a] \in 0..(N - 1)
                /\ found.results[a].similarity = Score(ti[a])
            /\ \A a, b \in 1..Len(ti) :
                /\ a < b => found.results[a].similarity >= found.results[b].similarity
                /\ a # b => ti[a] # ti[b]
            /\ \A i \in (0..(N - 1)) \ Range(ti) :
                \A a \in 1..Len(ti) : Score(i) <= Score(ti[a])

\* A search of more rows than k, with different scores among them, returned.
C4_Witness ==
    /\ found # None
    /\ Len(chunk_embeddings) > top_k
    /\ top_k >= 2
    /\ \E i, j \in 0..(Len(chunk_embeddings) - 1) : Score(i) < Score(j)
    /\ \E a, b \in 1..Len(found.top_indices) :
        Score(found.top_indices[a]) > Score(found.top_indices[b])

\* ========================================================================
\* grimm_fairy_tales_rag_demo.py: main
\* ========================================================================

\* The three demo queries of lines 237-241.
NumQueries == 3

\* The locals of main that the other variables do not hold: chunks, the
\* 0-based position qi in the list of queries, the queries search_chunks was
\* called for, the outcome of the last generate_answer, and the call an
\* uncaught exception came from.
Session(chunks, qi, attempted, answer, crash) ==
    [t |-> "session", chunks |-> chunks, qi |-> qi, attempted |-> attempted,
     answer |-> answer, crash |-> crash]

InitMain ==
    /\ pc = "start"
    /\ session = Session(<<>>, 0, {}, "none", "none")
    /\ text = <<>> /\ chunked = None
    /\ encoder \in [SampleTexts -> UnitVectors]
    \* BATCH_SIZE and TOP_K: the smallest and the largest configuration
    /\ batch_size \in {1, MaxBatchSize}
    /\ top_k \in {1, MaxTopK}
    /\ batch_in = <<>> /\ batch_out = None
    /\ chunk_embeddings = <<>> /\ query_embedding = <<>> /\ found = None
    /\ ServerIdle /\ PoolIdle

mainFrame == <<serverVars, poolVars, chunked, batch_in, batch_size, batch_out,
               encoder, top_k>>

\* Lines 217-224: the document is read, or the file is missing and main
\* prints the error and returns.
load_document ==
    /\ pc = "start"
    /\ \E found_file \in BOOLEAN :
        IF found_file
        THEN \E d \in PieceDocuments : text' = d /\ pc' = "loaded"
        ELSE text' = text /\ pc' = "returned"
    /\ UNCHANGED <<session, chunk_embeddings, query_embedding, found, mainFrame>>

\* Line 227: chunks = chunk_text(text)
create_chunks ==
    /\ pc = "loaded"
    /\ session' = [session EXCEPT !.chunks = chunk_text(text)]
    /\ pc' = "chunked"
    /\ UNCHANGED <<text, chunk_embeddings, query_embedding, found, mainFrame>>

\* Line 232: chunk_embeddings = generate_all_embeddings(...); an exception
\* is not caught in main.
build_embeddings ==
    /\ pc = "chunked"
    /\ \E failing \in -1..(NumBatches(Len(session.chunks), batch_size) - 1) :
        LET m == generate_all_embeddings(session.chunks, batch_size, encoder, failing)
        IN  IF m.t = "tensor"
            THEN /\ chunk_embeddings' = m.rows
                 /\ pc' = "query"
                 /\ session' = session
            ELSE /\ chunk_embeddings' = chunk_embeddings
                 /\ pc' = "crashed"
                 /\ session' = [session EXCEPT !.crash = "generate_all_embeddings"]
    /\ UNCHANGED <<text, query_embedding, found, mainFrame>>

\* Line 249: results = search_chunks(query, ...).  get_embeddings([query])
\* inside it returns the model's embedding of the query or raises; main
\* does not catch the exception.
run_search ==
    /\ pc = "query"
    /\ session.qi < NumQueries
    /\ \E encode_ok \in BOOLEAN :
        IF encode_ok
        THEN \E q \in UnitVectors :
                \E r \in search_chunks(q, session.chunks, chunk_embeddings, top_k) :
                    /\ query_embedding' = q
                    /\ found' = r
                    /\ pc' = "display"
                    /\ session' = [session EXCEPT !.attempted = @ \cup {session.qi},
                                                  !.answer = "none"]
        ELSE /\ query_embedding' = query_embedding
             /\ found' = found
             /\ pc' = "crashed"
             /\ session' = [session EXCEPT !.attempted = @ \cup {session.qi},
                                           !.crash = "search_chunks"]
    /\ UNCHANGED <<text, chunk_embeddings, mainFrame>>

\* Lines 252-253: display_results prints the results.
display_results ==
    /\ pc = "display"
    /\ pc' = "answer"
    /\ UNCHANGED <<session, text, chunk_embeddings, query_embedding, found, mainFrame>>

\* Lines 256-257: generate_answer catches the failure of ollama.chat and
\* prints it; the loop goes on to the next query.
generate_answer ==
    /\ pc = "answer"
    /\ \E chat_ok \in BOOLEAN :
        session' = [session EXCEPT !.qi = @ + 1,
                                   !.answer = IF chat_ok THEN "printed"
                                              ELSE "error printed"]
    /\ pc' = "query"
    /\ UNCHANGED <<text, chunk_embeddings, query_embedding, found, mainFrame>>

\* Line 259: "Demo completed!"
finish ==
    /\ pc = "query"
    /\ session.qi = NumQueries
    /\ pc' = "done"
    /\ UNCHANGED <<session, text, chunk_embeddings, query_embedding, found, mainFrame>>

NextMain ==
    \/ load_document
    \/ create_chunks
    \/ build_embeddings
    \/ run_search
    \/ display_results
    \/ generate_answer
    \/ finish

SpecMain == InitMain /\ [][NextMain]_vars

\* ------------------------------------------------------------------------
\* C9: once the embeddings are built, main ends only by normal completion,
\* with every query of the list attempted: a failure of the encoder or of
\* the chat model while a query is handled is printed and skipped.
C9_QueryFailureSkipsToNext ==
    (pc \in {"done", "crashed"} /\ session.crash # "generate_all_embeddings")
        => (pc = "done" /\ session.attempted = 0..(NumQueries - 1))

\* The chunk list and the matrix are built.
Built ==
    \/ pc \in {"query", "display", "answer", "done"}
    \/ pc = "crashed" /\ session.crash = "search_chunks"

Coupled ==
    /\ Len(chunk_embeddings) = Len(session.chunks)
    /\ \A i \in 1..Len(session.chunks) :
        chunk_embeddings[i] = encoder[session.chunks[i].text]
    /\ found # None =>
        /\ Len(found.results) = Len(found.top_indices)
        /\ \A j \in 1..Len(found.results) :
            LET idx == found.top_indices[j]
            IN  /\ idx \in 0..(Len(session.chunks) - 1)
                /\ found.results[j].similarity
                     = Dot(chunk_embeddings[idx + 1], query_embedding)
                /\ found.results[j].text = session.chunks[idx + 1].text
                /\ found.results[j].tokens = session.chunks[idx + 1].tokens

\* C10: once the chunk list and the matrix are built, no step changes
\* either, they have the same length, row i is the embedding of the text of
\* chunk i, and every search result carries the text and the token count of
\* the chunk at the position of the row its score comes from.
C10_PositionalCoupling ==
    /\ [](Built => Coupled)
    /\ [][Built => (/\ session'.chunks = session.chunks
                    /\ chunk_embeddings' = chunk_embeddings)]_vars

\* A later query's search ranked a row other than row 0 first, over chunks
\* with different texts.
C10_Witness ==
    /\ pc = "display"
    /\ session.qi >= 1
    /\ Len(session.chunks) >= 2
    /\ session.chunks[1].text # session.chunks[2].text
    /\ found.top_indices[1] # 0

=============================================================================
